---- MODULE Spec2Model ----
(***************************************************************************)
(* The broad-crested weir notebook (BroadcrestedWeir.ipynb): the discharge  *)
(* formula broad_crested_weir_Q, the sampled curve of plot_broad_weir, and  *)
(* the three sliders that interact() binds to it.  Python floats and numpy  *)
(* float64 are modelled bit for bit as IEEE-754 binary64 values.            *)
(***************************************************************************)
EXTENDS Integers, Sequences, FiniteSets, TLC

VARIABLES
    g,        \* the notebook's global g (gravitational acceleration)
    widgets,  \* the values of the three FloatSliders as the kernel holds them
    queue,    \* change messages from the front end that the kernel has not yet taken up
    pc,       \* the kernel: "idle", or "update" while interact's observer is to run
    sent,     \* change messages sent so far
    fig,      \* the figure on display: what the last plot_broad_weir call drew
    changes,  \* changes of a slider's value so far
    notified, \* times interact's observer has been notified so far
    draws,    \* plt.show() calls so far
    shown,    \* history: every figure drawn so far
    call,     \* a direct call of one of the two functions, with its arguments
    ret       \* what that call returned

vars == <<g, widgets, queue, pc, sent, fig, changes, notified, draws, shown, call, ret>>

(***************************************************************************)
(* Natural numbers of arbitrary size: little-endian sequences of limbs in   *)
(* base Radix, without high zero limbs (zero is the empty sequence).        *)
(***************************************************************************)
LimbBits == 14
Radix == 2^LimbBits

RECURSIVE BNorm(_)
BNorm(a) == IF a = <<>> THEN <<>>
            ELSE IF a[Len(a)] = 0 THEN BNorm(SubSeq(a, 1, Len(a) - 1))
            ELSE a

BFromInt(n) == BNorm(<<n % Radix, (n \div Radix) % Radix, n \div (Radix * Radix)>>)

RECURSIVE BAddC(_, _, _)
BAddC(a, b, c) ==
    IF a = <<>> /\ b = <<>> THEN (IF c = 0 THEN <<>> ELSE <<c>>)
    ELSE LET x == IF a = <<>> THEN 0 ELSE Head(a)
             y == IF b = <<>> THEN 0 ELSE Head(b)
             t == x + y + c
         IN  <<t % Radix>> \o BAddC(IF a = <<>> THEN a ELSE Tail(a),
                                    IF b = <<>> THEN b ELSE Tail(b), t \div Radix)
BAdd(a, b) == BAddC(a, b, 0)

\* a - b for a >= b
RECURSIVE BSubC(_, _, _)
BSubC(a, b, c) ==
    IF a = <<>> THEN <<>>
    ELSE LET y == IF b = <<>> THEN 0 ELSE Head(b)
             t == Head(a) - y - c
         IN  <<IF t < 0 THEN t + Radix ELSE t>>
             \o BSubC(Tail(a), IF b = <<>> THEN b ELSE Tail(b), IF t < 0 THEN 1 ELSE 0)
BSub(a, b) == BNorm(BSubC(a, b, 0))

\* -1, 0, 1 as a < b, a = b, a > b
RECURSIVE BCmpAt(_, _, _)
BCmpAt(a, b, i) == IF i = 0 THEN 0
                   ELSE IF a[i] < b[i] THEN -1
                   ELSE IF a[i] > b[i] THEN 1
                   ELSE BCmpAt(a, b, i - 1)
BCmp(a, b) == IF Len(a) < Len(b) THEN -1
              ELSE IF Len(a) > Len(b) THEN 1
              ELSE BCmpAt(a, b, Len(a))

\* a * d for a limb-sized d (0 <= d <= Radix)
RECURSIVE BMulSmallC(_, _, _)
BMulSmallC(a, d, c) ==
    IF a = <<>> THEN (IF c = 0 THEN <<>> ELSE <<c>>)
    ELSE LET t == Head(a) * d + c
         IN  <<t % Radix>> \o BMulSmallC(Tail(a), d, t \div Radix)
BMulSmall(a, d) == IF d = 0 THEN <<>> ELSE BMulSmallC(a, d, 0)

RECURSIVE BMul(_, _)
BMul(a, b) == IF a = <<>> \/ b = <<>> THEN <<>>
              ELSE BAdd(BMulSmall(a, Head(b)),
                        LET r == BMul(a, Tail(b)) IN IF r = <<>> THEN r ELSE <<0>> \o r)

\* <<a \div d, a % d>> for 0 < d <= Radix
RECURSIVE BDivSmallR(_, _)
BDivSmallR(a, d) ==
    IF a = <<>> THEN << <<>>, 0 >>
    ELSE LET hi  == BDivSmallR(Tail(a), d)
             cur == hi[2] * Radix + Head(a)
         IN  << <<cur \div d>> \o hi[1], cur % d >>
NormQuot(r) == << BNorm(r[1]), r[2] >>
BDivSmall(a, d) == NormQuot(BDivSmallR(a, d))

Zeros(w) == [i \in 1..w |-> 0]
BShl(a, s) == IF a = <<>> THEN <<>>
              ELSE Zeros(s \div LimbBits) \o BMulSmall(a, 2^(s % LimbBits))
BShr(a, s) == IF s \div LimbBits >= Len(a) THEN <<>>
              ELSE BDivSmall(SubSeq(a, s \div LimbBits + 1, Len(a)), 2^(s % LimbBits))[1]

\* <<a \div 2^s, a % 2^s # 0>>
LowLimbs(a, w) == \E i \in 1..w : a[i] # 0
StickyQuot(r, low) == << r[1], r[2] # 0 \/ low >>
BShrSticky(a, s) ==
    IF s \div LimbBits >= Len(a) THEN << <<>>, a # <<>> >>
    ELSE StickyQuot(BDivSmall(SubSeq(a, s \div LimbBits + 1, Len(a)), 2^(s % LimbBits)),
                    LowLimbs(a, s \div LimbBits))

RECURSIVE BitLenSmall(_)
BitLenSmall(x) == IF x = 0 THEN 0 ELSE 1 + BitLenSmall(x \div 2)
BBitLen(a) == IF a = <<>> THEN 0 ELSE LimbBits * (Len(a) - 1) + BitLenSmall(a[Len(a)])
BOdd(a) == a # <<>> /\ a[1] % 2 = 1
\* the value of a number below 2^31 (at most three limbs)
RECURSIVE BToInt(_)
BToInt(a) == IF a = <<>> THEN 0 ELSE Head(a) + Radix * BToInt(Tail(a))

\* floor(sqrt(x)) of a machine integer, by bisection on lo <= root < hi
RECURSIVE ISqrtSmall(_, _, _)
ISqrtSmall(x, lo, hi) == IF hi - lo <= 1 THEN lo
                         ELSE LET mid == (lo + hi) \div 2
                              IN  IF mid * mid <= x THEN ISqrtSmall(x, mid, hi)
                                  ELSE ISqrtSmall(x, lo, mid)

\* the largest digit d <= d0 with (D + d) * d <= R
RECURSIVE SqrtDigit(_, _, _)
SqrtDigit(D, R, d0) == IF d0 = 0 \/ BCmp(BMulSmall(BAdd(D, <<d0>>), d0), R) <= 0 THEN d0
                       ELSE SqrtDigit(D, R, d0 - 1)

\* a first guess, never too small, of the next root digit: the quotient of the
\* leading 15 bits of D into R when a partial root exists, else the root of R itself
SqrtQuot(R, D, s) == BToInt(BShr(R, s)) \div BToInt(BShr(D, s)) + 1
SqrtGuess(P, R, D) ==
    IF P = <<>> THEN ISqrtSmall(BToInt(R), 0, Radix)
    ELSE SqrtQuot(R, D, IF BBitLen(D) > LimbBits + 1 THEN BBitLen(D) - (LimbBits + 1) ELSE 0)
SqrtClip(d) == IF d >= Radix THEN Radix - 1 ELSE d

\* the root P and remainder R extended by the digit d
SqrtPush(P, R, D, d) == << BNorm(<<d>> \o P), BSub(R, BMulSmall(BAdd(D, <<d>>), d)) >>
SqrtNext(P, R, D) == SqrtPush(P, R, D, SqrtDigit(D, R, SqrtClip(SqrtGuess(P, R, D))))
SqrtStep(hi, n1, n2) == SqrtNext(hi[1], BNorm(<<n1, n2>> \o hi[2]), BShl(hi[1], LimbBits + 1))

\* <<floor(sqrt(n)), n - floor(sqrt(n))^2>> for n with an even number of limbs
\* (high zero limbs allowed), one base-Radix digit of the root per pair of limbs
RECURSIVE BSqrtRem(_)
BSqrtRem(n) == IF n = <<>> THEN << <<>>, <<>> >>
               ELSE SqrtStep(BSqrtRem(Tail(Tail(n))), n[1], n[2])

(***************************************************************************)
(* IEEE-754 binary64 values (Python float, numpy float64) in the normal     *)
(* range: [neg, m, e] is (-1)^neg * m * 2^e with 2^52 <= m < 2^53, and zero *)
(* has m = <<>>.  Every operation rounds to nearest, ties to even.  NaN, the *)
(* result of the square root of a negative number, is m = <<>> with neg set *)
(* (the model has no negative zero).  Overflow and subnormals are out of    *)
(* the notebook's range and are not modelled.                               *)
(***************************************************************************)
Precision == 53
FZero == [neg |-> FALSE, m |-> <<>>, e |-> 0]
FNaN == [neg |-> TRUE, m |-> <<>>, e |-> 0]
IsNaN(x) == x.m = <<>> /\ x.neg

\* the double of sign neg, significand q and exponent e, where q has Precision
\* bits, or one more after a carry out of rounding up
FPack(neg, q, e) == IF BBitLen(q) > Precision
                    THEN [neg |-> neg, m |-> BShr(q, 1), e |-> e + 1]
                    ELSE [neg |-> neg, m |-> q, e |-> e]
\* round to nearest, ties to even: q the kept bits, guard the first bit dropped,
\* sticky whether any later bit is set
FRoundQ(neg, q, guard, sticky, e) ==
    FPack(neg, IF guard /\ (sticky \/ BOdd(q)) THEN BAdd(q, <<1>>) ELSE q, e)
\* r = <<the kept bits and the guard bit, whether a dropped bit is set>>
FRoundG(neg, r, sticky, e) ==
    FRoundQ(neg, BDivSmall(r[1], 2)[1], BOdd(r[1]), r[2] \/ sticky, e)
FRoundL(neg, n, e, sticky, L) ==
    IF n = <<>> THEN FZero
    ELSE IF L <= Precision
         THEN [neg |-> neg, m |-> BShl(n, Precision - L), e |-> e - (Precision - L)]
    ELSE FRoundG(neg, BShrSticky(n, L - Precision - 1), sticky, e + (L - Precision))
\* the double nearest to (-1)^neg * (n + f) * 2^e, where 0 < f < 1 iff sticky
FRound(neg, n, e, sticky) == FRoundL(neg, n, e, sticky, BBitLen(n))

FNeg(x) == IF x.m = <<>> THEN x ELSE [x EXCEPT !.neg = ~x.neg]

\* the exact integer i, and the decimal literal p/q, as doubles (0 < q <= Radix)
FFromInt(i) == FRound(FALSE, BFromInt(i), 0, FALSE)
FRoundDiv(neg, d, e) == FRound(neg, d[1], e, d[2] # 0)
FDec(p, q) == FRoundDiv(FALSE, BDivSmall(BShl(BFromInt(p), 5 * LimbBits), q), -(5 * LimbBits))

FMul(x, y) == IF IsNaN(x) \/ IsNaN(y) THEN FNaN
              ELSE FRound(x.neg # y.neg, BMul(x.m, y.m), x.e + y.e, FALSE)

\* (-1)^xn * a * 2^e + (-1)^yn * b * 2^e
FAddAligned(xn, a, yn, b, e) ==
    FRound(IF xn = yn \/ BCmp(a, b) >= 0 THEN xn ELSE yn,
           IF xn = yn THEN BAdd(a, b) ELSE IF BCmp(a, b) >= 0 THEN BSub(a, b) ELSE BSub(b, a),
           e, FALSE)
\* x + y for x.e >= y.e, both non-zero: y is too small to count once it lies more
\* than two bits below the last bit of x
FAddOrd(x, y) == IF x.e - y.e > Precision + 2 THEN x
                 ELSE FAddAligned(x.neg, BShl(x.m, x.e - y.e), y.neg, y.m, y.e)
FAdd(x, y) == IF IsNaN(x) \/ IsNaN(y) THEN FNaN
              ELSE IF x.m = <<>> THEN y
              ELSE IF y.m = <<>> THEN x
              ELSE FAddOrd(IF x.e >= y.e THEN x ELSE y, IF x.e >= y.e THEN y ELSE x)
FSub(x, y) == FAdd(x, FNeg(y))

\* x / n for an integer 0 < n <= Radix
FDivInt(x, n) == IF IsNaN(x) THEN FNaN ELSE
                 FRoundDiv(x.neg, BDivSmall(BShl(x.m, 2 * LimbBits), n), x.e - 2 * LimbBits)

\* sqrt(x): NaN for x < 0, else the root of m * 2^k, k chosen to make x.e - k even
\* and the radicand eight limbs wide
FRoundRoot(r, e) == FRound(FALSE, r[1], e, r[2] # <<>>)
FSqrtK(x, k) == FRoundRoot(BSqrtRem(BShl(x.m, k)), (x.e - k) \div 2)
FSqrt(x) == IF x.neg THEN FNaN
            ELSE IF x.m = <<>> THEN FZero
            ELSE FSqrtK(x, IF x.e % 2 = 0 THEN 4 * LimbBits + 2 ELSE 4 * LimbBits + 3)

\* -1, 0, 1 as x < y, x = y, x > y
FCmpMag(x, y) == IF x.m = <<>> THEN (IF y.m = <<>> THEN 0 ELSE -1)
                 ELSE IF y.m = <<>> THEN 1
                 ELSE IF x.e # y.e THEN (IF x.e < y.e THEN -1 ELSE 1)
                 ELSE BCmp(x.m, y.m)
FCmp(x, y) == IF x.neg # y.neg THEN (IF x.neg THEN -1 ELSE 1)
              ELSE IF x.neg THEN FCmpMag(y, x) ELSE FCmpMag(x, y)
\* x < y and x <= y, false when either is NaN
FLess(x, y) == ~IsNaN(x) /\ ~IsNaN(y) /\ FCmp(x, y) < 0
FLeq(x, y) == ~IsNaN(x) /\ ~IsNaN(y) /\ FCmp(x, y) <= 0

(***************************************************************************)
(* The notebook's code cell.                                                *)
(***************************************************************************)
\* g = 9.81
g_init == FDec(981, 100)

\* Faulty variants of the formula, each the slip its name says: the factor 2
\* under the root left out, H left out of the root, b typed for H, Cd typed twice.
weir_Q_without_two(b, H, Cd) ==
    FMul(FMul(FMul(Cd, b), H), FSqrt(FMul(g, H)))
weir_Q_root_without_H(b, H, Cd) ==
    FMul(FMul(FMul(Cd, b), H), FSqrt(FMul(FFromInt(2), g)))
weir_Q_b_for_H(b, H, Cd) ==
    FMul(FMul(FMul(Cd, b), b), FSqrt(FMul(FMul(FFromInt(2), g), b)))
weir_Q_Cd_twice(b, H, Cd) ==
    FMul(FMul(FMul(FMul(Cd, Cd), b), H), FSqrt(FMul(FMul(FFromInt(2), g), H)))

\* return Cd * b * H * np.sqrt(2 * g * H), evaluated left to right
broad_crested_weir_Q(b, H, Cd) ==
    FMul(FMul(FMul(Cd, b), H), FSqrt(FMul(FMul(FFromInt(2), g), H)))

\* Faulty variants of the sampling: the step taken with the wrong sign, and the
\* endpoint left out (endpoint=False: the step is (stop - start) / num)
linspace_backwards(start, stop, num) ==
    LET div   == num - 1
        delta == FSub(start, stop)
        step  == FDivInt(delta, div)
    IN  SubSeq([i \in 1..num |-> IF i = num THEN stop
                                 ELSE FAdd(FMul(FFromInt(i - 1), step), start)], 1, num)
linspace_open(start, stop, num) ==
    LET delta == FSub(stop, start)
        step  == FDivInt(delta, num)
    IN  SubSeq([i \in 1..num |-> FAdd(FMul(FFromInt(i - 1), step), start)], 1, num)

\* np.linspace(start, stop, num) with endpoint=True: step = (stop - start) / (num - 1),
\* sample i is i * step + start, and the last sample is then overwritten by stop
linspace(start, stop, num) ==
    LET div   == num - 1
        delta == FSub(stop, start)
        step  == FDivInt(delta, div)
    IN  SubSeq([i \in 1..num |-> IF i = num THEN stop
                                 ELSE FAdd(FMul(FFromInt(i - 1), step), start)], 1, num)

NumSamples == 300

\* broad_crested_weir_Q applied to the array H_vals: numpy evaluates the
\* expression element by element
weir_Q_array(b, H_vals, Cd) ==
    SubSeq([i \in 1..Len(H_vals) |-> broad_crested_weir_Q(b, H_vals[i], Cd)], 1, Len(H_vals))

\* the figure drawn from H_vals: the curve, and the b and Cd of its title
plot_curve(Cd, b, H_max, H_vals) ==
    [args |-> [Cd |-> Cd, b |-> b, H_max |-> H_max],
     H_vals |-> H_vals, Q_vals |-> weir_Q_array(b, H_vals, Cd), title |-> [b |-> b, Cd |-> Cd]]

\* a faulty variant: the samples started at H = 0 instead of 0.01
plot_broad_weir_from_zero(Cd, b, H_max) ==
    plot_curve(Cd, b, H_max, linspace(FZero, H_max, NumSamples))

plot_broad_weir(Cd, b, H_max) ==
    plot_curve(Cd, b, H_max, linspace(FDec(1, 100), H_max, NumSamples))

\* The FloatSliders of interact(), with the arguments the cell gives them
CdSlider   == [value |-> FDec(5, 10), min |-> FDec(4, 10), max |-> FDec(7, 10), step |-> FDec(1, 100)]
bSlider    == [value |-> FFromInt(1), min |-> FDec(1, 10), max |-> FFromInt(5), step |-> FDec(1, 10)]
HmaxSlider == [value |-> FFromInt(1), min |-> FDec(1, 10), max |-> FFromInt(2), step |-> FDec(5, 100)]
Slider(name) == CASE name = "Cd" -> CdSlider
                  [] name = "b" -> bSlider
                  [] name = "H_max" -> HmaxSlider

\* a faulty variant: the value held below max only
Clamp_without_min(sl, x) == IF FLess(sl.max, x) THEN sl.max ELSE x

\* A FloatSlider keeps its value between min and max: a value beyond an end becomes
\* that end.  Nothing moves a value onto a multiple of step.
Clamp(sl, x) == IF FLess(x, sl.min) THEN sl.min
                ELSE IF FLess(sl.max, x) THEN sl.max
                ELSE x

NoFig == [args |-> "none"]
NoCall == [fn |-> "none"]

\* Faulty variants of the observer: one passes the Cd the slider was created with
\* instead of its current value, the other rebinds the global g while it runs
Observe_stale(w) ==
    /\ g' = g
    /\ fig' = plot_broad_weir(CdSlider.value, w.b, w.H_max)
    /\ draws' = draws + 1
    /\ shown' = shown \cup {fig'}
Observe_rebinds_g(w) ==
    /\ g' = FMul(FFromInt(2), g)
    /\ fig' = plot_broad_weir(w.Cd, w.b, w.H_max)
    /\ draws' = draws + 1
    /\ shown' = shown \cup {fig'}

\* interact's observer: it calls plot_broad_weir with the current values of all
\* three sliders, and the call runs to its plt.show(); neither function assigns
\* the global g
Observe(w) ==
    /\ g' = g
    /\ fig' = plot_broad_weir(w.Cd, w.b, w.H_max)
    /\ draws' = draws + 1
    /\ shown' = shown \cup {fig'}

\* the value of a slider whose handle stands n steps above min
HandleValue(sl, n) == FAdd(sl.min, FMul(FFromInt(n), sl.step))

MaxChanges == 2

\* The values the user asks for: handle positions, values typed into a slider's
\* readout (on or off the step grid, inside or outside the range), and the value
\* the slider started with.
CdRequests   == {FDec(3, 10), FDec(455, 1000), CdSlider.value, FDec(9, 10)}
bRequests    == {FDec(5, 100), bSlider.value, FDec(75, 10)}
HmaxRequests == {FDec(5, 100), HandleValue(HmaxSlider, 1), HmaxSlider.value, FFromInt(3)}

\* the user changes a slider: the front end sends a change message to the kernel
Send(name, x) ==
    /\ sent' = sent + 1
    /\ queue' = Append(queue, [slider |-> name, value |-> x])

UserChangeCd ==
    /\ sent < MaxChanges
    /\ \E x \in CdRequests : Send("Cd", x)
    /\ UNCHANGED <<g, widgets, pc, fig, changes, notified, draws, shown, call, ret>>

UserChangeB ==
    /\ sent < MaxChanges
    /\ \E x \in bRequests : Send("b", x)
    /\ UNCHANGED <<g, widgets, pc, fig, changes, notified, draws, shown, call, ret>>

UserChangeHmax ==
    /\ sent < MaxChanges
    /\ \E x \in HmaxRequests : Send("H_max", x)
    /\ UNCHANGED <<g, widgets, pc, fig, changes, notified, draws, shown, call, ret>>

\* The kernel takes up one message at a time, and only when no observer is left to
\* run.  The value is assigned as received: one equal to the slider's value
\* triggers nothing; any other is recorded as a change, the slider then brings it
\* into its range, and interact's observer is notified once, also when the value
\* brought into the range is the one the slider already had.
KernelIdle == pc = "idle"
SetValue(name, x) ==
    IF x = widgets[name]
    THEN UNCHANGED <<widgets, pc, changes, notified>>
    ELSE /\ widgets' = [widgets EXCEPT ![name] = Clamp(Slider(name), x)]
         /\ pc' = "update"
         /\ notified' = notified + 1
         /\ changes' = IF widgets'[name] = widgets[name] THEN changes ELSE changes + 1
Receive ==
    /\ KernelIdle
    /\ queue # <<>>
    /\ queue' = Tail(queue)
    /\ SetValue(Head(queue).slider, Head(queue).value)
    /\ UNCHANGED <<g, sent, fig, draws, shown, call, ret>>

\* the observer runs: one evaluation and one redraw, to completion
Update ==
    /\ pc = "update"
    /\ Observe(widgets)
    /\ pc' = "idle"
    /\ UNCHANGED <<widgets, queue, sent, changes, notified, call, ret>>

\* The state once the cell has run: g is set, the sliders hold their initial
\* values, and interact() has called plot_broad_weir once with them.
Init ==
    /\ g = g_init
    /\ widgets = [Cd |-> CdSlider.value, b |-> bSlider.value, H_max |-> HmaxSlider.value]
    /\ queue = <<>>
    /\ pc = "idle"
    /\ sent = 0
    /\ fig = plot_broad_weir(widgets.Cd, widgets.b, widgets.H_max)
    /\ changes = 0
    /\ notified = 0
    /\ draws = 1
    /\ shown = {fig}
    /\ call = NoCall
    /\ ret = NoCall

Next == UserChangeCd \/ UserChangeB \/ UserChangeHmax \/ Receive \/ Update

Spec == Init /\ [][Next]_vars

(***************************************************************************)
(* The two functions called directly, as from another cell of the notebook: *)
(* one call per behaviour, its arguments drawn from bounded sets.           *)
(***************************************************************************)
\* the double j units in the last place above the positive double x
UlpsAbove(x, j) == FPack(FALSE, BAdd(x.m, BFromInt(j)), x.e)

MaxUlp == 1
MaxHk == 10

\* arguments of broad_crested_weir_Q: decimal literals p/q, and for H also the
\* doubles up to MaxUlp places above a literal
QCdArgs == {FDec(k, 100) : k \in {40, 50, 60, 70}}
QbArgs  == {FDec(1, 10), FFromInt(1), FFromInt(2)}
QHArgs  == {UlpsAbove(FDec(d[1], d[2]), j) :
               d \in {<<3, 100>>, <<55, 1000>>, <<6, 10>>, <<1, 1>>}, j \in 0..MaxUlp}

\* arguments of plot_broad_weir: H_max = 0.005, 0.01, 0.02, 0.05, 0.1, ..., the
\* k-th of the 1-2-5 series in thousandths, from below the first sample 0.01 to
\* beyond the slider's range
PlotHmaxArg(k) == FDec(<<5, 10, 20>>[((k - 1) % 3) + 1] * 10^((k - 1) \div 3), 1000)
PlotCdbArgs == {<<FDec(4, 10), FDec(1, 10)>>, <<FDec(7, 10), FFromInt(5)>>}

CallQ ==
    /\ call = NoCall
    /\ \E b \in QbArgs, H \in QHArgs, Cd \in QCdArgs :
          /\ call' = [fn |-> "broad_crested_weir_Q", b |-> b, H |-> H, Cd |-> Cd]
          /\ ret' = broad_crested_weir_Q(b, H, Cd)
    /\ UNCHANGED <<g, widgets, queue, pc, sent, fig, changes, notified, draws, shown>>

CallPlot ==
    /\ call = NoCall
    /\ \E a \in PlotCdbArgs, k \in 1..MaxHk :
          /\ call' = [fn |-> "plot_broad_weir", Cd |-> a[1], b |-> a[2], H_max |-> PlotHmaxArg(k)]
          /\ fig' = plot_broad_weir(a[1], a[2], PlotHmaxArg(k))
    /\ draws' = draws + 1
    /\ shown' = shown \cup {fig'}
    /\ UNCHANGED <<g, widgets, queue, pc, sent, changes, notified, ret>>

\* the cell has defined g and the functions; nothing is drawn yet
InitCall ==
    /\ g = g_init
    /\ widgets = [Cd |-> CdSlider.value, b |-> bSlider.value, H_max |-> HmaxSlider.value]
    /\ queue = <<>>
    /\ pc = "idle"
    /\ sent = 0
    /\ fig = NoFig
    /\ changes = 0
    /\ notified = 0
    /\ draws = 0
    /\ shown = {}
    /\ call = NoCall
    /\ ret = NoCall

NextCall == CallQ \/ CallPlot

SpecCall == InitCall /\ [][NextCall]_vars

(***************************************************************************)
(* Exact arithmetic on non-negative dyadic rationals, to state what the     *)
(* doubles are near to: [neg, m, e] is m * 2^e with m any natural number,   *)
(* so every positive double is one of them as it stands.                    *)
(***************************************************************************)
DyInt(i) == [neg |-> FALSE, m |-> BFromInt(i), e |-> 0]
\* BMul recurses on its second factor: the shorter one goes there
DyMulM(a, b) == IF Len(a) >= Len(b) THEN BMul(a, b) ELSE BMul(b, a)
DyMul(x, y) == [neg |-> FALSE, m |-> DyMulM(x.m, y.m), e |-> x.e + y.e]
DyScale(x, s) == [x EXCEPT !.e = @ + s]
DyMinE(x, y) == IF x.e <= y.e THEN x.e ELSE y.e
DyCmpAt(x, y, e0) == BCmp(BShl(x.m, x.e - e0), BShl(y.m, y.e - e0))
DyCmp(x, y) == DyCmpAt(x, y, DyMinE(x, y))
DyLeq(x, y) == DyCmp(x, y) <= 0
DyDistM(a, b) == IF BCmp(a, b) >= 0 THEN BSub(a, b) ELSE BSub(b, a)
DyDistAt(x, y, e0) ==
    [neg |-> FALSE, m |-> DyDistM(BShl(x.m, x.e - e0), BShl(y.m, y.e - e0)), e |-> e0]
\* |x - y|
DyDist(x, y) == DyDistAt(x, y, DyMinE(x, y))

\* The tolerance of every "within rounding" below: a relative 2^-TolBits, eight
\* times the unit roundoff 2^-Precision of one double operation.
TolBits == Precision - 3
\* |x - y| <= 2^-TolBits * y
DyNear(x, y) == DyLeq(DyDist(x, y), DyScale(y, -TolBits))
\* y - x >= 2^-TolBits * x, for x <= y
DyApart(x, y) == DyLeq(DyScale(x, -TolBits), DyDist(x, y))

Positive(x) == ~x.neg /\ x.m # <<>>

(***************************************************************************)
(* Properties of the interactive notebook (Spec).                           *)
(***************************************************************************)
CurrentArgs == [Cd |-> widgets.Cd, b |-> widgets.b, H_max |-> widgets.H_max]
InRange(x, lo, hi) == FLeq(lo, x) /\ FLeq(x, hi)
\* x is the k-th multiple of 1/per for a k from lo to hi, to within rounding
OnGrid(x, per, lo, hi) == \E k \in lo..hi : DyNear(DyMul(DyInt(per), x), DyInt(k))
ArgsInRange(a) ==
    /\ InRange(a.Cd, FDec(4, 10), FDec(7, 10))
    /\ InRange(a.b, FDec(1, 10), FFromInt(5))
    /\ InRange(a.H_max, FDec(1, 10), FFromInt(2))
ArgsOnGrid(a) ==
    /\ OnGrid(a.Cd, 100, 40, 70)
    /\ OnGrid(a.b, 10, 1, 50)
    /\ OnGrid(a.H_max, 20, 2, 40)
InitialArgs == [Cd |-> FDec(5, 10), b |-> FFromInt(1), H_max |-> FFromInt(1)]

\* C4 as stated: after any sequence of changes, starting from Cd = 0.5, b = 1.0,
\* H_max = 1.0, the arguments of the plot_broad_weir call are Cd in [0.4, 0.7] on
\* the 0.01 grid, b in [0.1, 5.0] on the 0.1 grid, H_max in [0.1, 2.0] on the 0.05
\* grid (a grid point being met to within rounding).
C4_RangesAndGrids ==
    /\ changes = 0 => fig.args = InitialArgs
    /\ ArgsInRange(fig.args)
    /\ ArgsOnGrid(fig.args)

\* C4 (amended): after any sequence of changes, starting from Cd = 0.5, b = 1.0,
\* H_max = 1.0, the arguments of the plot_broad_weir call are Cd in [0.4, 0.7],
\* b in [0.1, 5.0] and H_max in [0.1, 2.0], a value asked for beyond an end being
\* replaced by that end; they need not lie on the sliders' step grids.
C4_SliderRanges ==
    /\ changes = 0 => fig.args = InitialArgs
    /\ ArgsInRange(fig.args)
    /\ ArgsInRange(CurrentArgs)
    /\ \A f \in shown : ArgsInRange(f.args)

C4_Witness ==
    /\ changes = 2
    /\ pc = "idle"
    /\ fig.args = CurrentArgs
    /\ fig.args.Cd = FDec(7, 10)
    /\ fig.args.H_max = FDec(1, 10)
    /\ \E f \in shown : f.args.Cd = FDec(7, 10) /\ f.args.H_max = FFromInt(1)

RootArg(H) == FMul(FMul(FFromInt(2), g), H)
SampleDefined(H, Q, H_max) ==
    /\ FLeq(FDec(1, 100), H)
    /\ FLeq(H, H_max)
    /\ ~IsNaN(RootArg(H))
    /\ ~RootArg(H).neg
    /\ ~IsNaN(Q)
    /\ Positive(Q)

\* C10: in every state the sliders can reach, every sampled head lies in
\* [0.01, H_max], the argument 2 * g * H of the square root is never negative, and
\* every Q is a number (not NaN) and strictly positive, the first sample H = 0.01
\* included.
C10_AlwaysDefined ==
    \A i \in 1..Len(fig.H_vals) :
        SampleDefined(fig.H_vals[i], fig.Q_vals[i], fig.args.H_max)

C10_Witness ==
    /\ changes > 0
    /\ pc = "idle"
    /\ widgets.H_max = FDec(1, 10)
    /\ fig.H_vals[1] = FDec(1, 100)
    /\ Positive(fig.Q_vals[1])
    /\ fig.H_vals[NumSamples] = FDec(1, 10)

(***************************************************************************)
(* Properties of the two functions called directly (SpecCall).              *)
(***************************************************************************)
IsQCall == call.fn = "broad_crested_weir_Q"
IsPlotCall == call.fn = "plot_broad_weir"

DySq(x) == DyMul(x, x)
OneUp   == [neg |-> FALSE, m |-> BAdd(BShl(<<1>>, TolBits), <<1>>), e |-> -TolBits]
OneDown == [neg |-> FALSE, m |-> BSub(BShl(<<1>>, TolBits), <<1>>), e |-> -TolBits]
\* Q > 0 and 100 * Q^2 within the factors (1 -+ 2^-TolBits)^2 of S: Q is within a
\* relative 2^-TolBits of sqrt(S / 100)
NearRoot(Q, S) ==
    /\ Positive(Q)
    /\ DyLeq(DyMul(DySq(OneDown), S), DyMul(DyInt(100), DySq(Q)))
    /\ DyLeq(DyMul(DyInt(100), DySq(Q)), DyMul(DySq(OneUp), S))
\* 100 * (Cd * b * H)^2 * (2 * 9.81 * H), in exact arithmetic
FormulaSquare(b, H, Cd) == DyMul(DyInt(1962), DyMul(DySq(DyMul(DyMul(Cd, b), H)), H))
\* 100 * (Cd * b * sqrt(2 * 9.81) * H^1.5)^2, in exact arithmetic
ExponentSquare(b, H, Cd) == DyMul(DyMul(DySq(DyMul(Cd, b)), DyInt(1962)), DyMul(DySq(H), H))

\* x rounds to 2.06 at two decimals: 2.055 < x < 2.065
RoundsTo206(x) ==
    /\ DyCmp(DyInt(2055), DyMul(DyInt(1000), x)) < 0
    /\ DyCmp(DyMul(DyInt(1000), x), DyInt(2065)) < 0

IsWorkedExample ==
    /\ IsQCall
    /\ call.Cd = FDec(5, 10)
    /\ call.b = FFromInt(2)
    /\ call.H = FDec(6, 10)

\* C1: for Cd, b, H > 0 broad_crested_weir_Q(b, H, Cd) returns, within the rounding
\* of double arithmetic (a relative 2^-50), the real number Cd * b * H *
\* sqrt(2 * 9.81 * H); so does every (H, Q) pair of a curve of plot_broad_weir,
\* with the Cd and b of that call; and Cd = 0.5, b = 2.0, H = 0.6 gives 2.06 when
\* rounded to two decimals.
C1_Formula ==
    /\ IsQCall => NearRoot(ret, FormulaSquare(call.b, call.H, call.Cd))
    /\ IsPlotCall =>
          /\ fig.args = [Cd |-> call.Cd, b |-> call.b, H_max |-> call.H_max]
          /\ \A i \in 1..Len(fig.H_vals) :
                NearRoot(fig.Q_vals[i], FormulaSquare(call.b, fig.H_vals[i], call.Cd))
    /\ IsWorkedExample => RoundsTo206(ret)

C1_Witness ==
    /\ IsWorkedExample
    /\ RoundsTo206(ret)
    /\ NearRoot(ret, FormulaSquare(call.b, call.H, call.Cd))

\* the samples run from start towards stop, and 299 * |y - x| is within
\* 299 * 2^-TolBits * scale of |stop - start|
NearStep(x, y, start, stop, scale) ==
    /\ IF FLeq(start, stop) THEN FLeq(x, y) ELSE FLeq(y, x)
    /\ DyLeq(DyDist(DyMul(DyInt(299), DyDist(y, x)), DyDist(stop, start)),
             DyScale(DyMul(DyInt(299), scale), -TolBits))
FMax(x, y) == IF FLess(x, y) THEN y ELSE x

\* C2 as stated: 300 samples from 0.01 to H_max, and the difference between
\* consecutive samples, taken exactly, is one and the same for every adjacent pair.
C2_ExactlyUniform ==
    IsPlotCall =>
        /\ Len(fig.H_vals) = 300
        /\ fig.H_vals[1] = FDec(1, 100)
        /\ fig.H_vals[300] = call.H_max
        /\ \A i \in 1..299 :
              /\ FLess(fig.H_vals[1], fig.H_vals[2]) = FLess(fig.H_vals[i], fig.H_vals[i + 1])
              /\ DyCmp(DyDist(fig.H_vals[i + 1], fig.H_vals[i]),
                       DyDist(fig.H_vals[2], fig.H_vals[1])) = 0

\* C2 (amended): every call of plot_broad_weir gives exactly 300 head samples, the
\* first is the double 0.01, the last is H_max itself, and each difference between
\* consecutive samples equals (H_max - 0.01) / 299 to within the rounding of the
\* samples, a 2^-50 part of the larger of H_max and 0.01; the differences need
\* not be one and the same double.
C2_Sampling ==
    IsPlotCall =>
        /\ Len(fig.H_vals) = 300
        /\ Len(fig.Q_vals) = 300
        /\ fig.H_vals[1] = FDec(1, 100)
        /\ fig.H_vals[300] = call.H_max
        /\ \A i \in 1..299 :
              NearStep(fig.H_vals[i], fig.H_vals[i + 1], fig.H_vals[1], call.H_max,
                       FMax(call.H_max, fig.H_vals[1]))

C2_Witness ==
    /\ IsPlotCall
    /\ call.H_max = FFromInt(1)
    /\ fig.H_vals[300] = FFromInt(1)
    /\ \E i \in 1..299 :
          DyCmp(DyDist(fig.H_vals[i + 1], fig.H_vals[i]), DyDist(fig.H_vals[2], fig.H_vals[1])) # 0

AllPositive(hv) == \A i \in 1..Len(hv) : Positive(hv[i])
StrictlyIncreasing(hv) == \A i \in 1..(Len(hv) - 1) : FLess(hv[i], hv[i + 1])

\* C3 as stated: for every H_max > 0 the head values of the curve are strictly
\* increasing and strictly positive.
C3_IncreasingForAnyHmax ==
    IsPlotCall /\ Positive(call.H_max) =>
        AllPositive(fig.H_vals) /\ StrictlyIncreasing(fig.H_vals)

\* C3 (amended): for every H_max > 0 every head value of the curve is strictly
\* positive, and for every H_max >= 0.02, so for every value of the H_max slider,
\* the head values are strictly increasing; for H_max <= 0.01 they are not, as
\* the samples run from 0.01 to H_max.
C3_Heads ==
    IsPlotCall /\ Positive(call.H_max) =>
        /\ AllPositive(fig.H_vals)
        /\ FLeq(FDec(2, 100), call.H_max) => StrictlyIncreasing(fig.H_vals)
        /\ FLeq(call.H_max, FDec(1, 100)) => ~FLess(fig.H_vals[1], fig.H_vals[2])

C3_Witness ==
    /\ IsPlotCall
    /\ call.H_max = FDec(2, 100)
    /\ FLess(fig.H_vals[1], fig.H_vals[2])
    /\ FLess(fig.H_vals[299], fig.H_vals[300])

\* q1 <= q2, and q1 < q2 when x2 exceeds x1 by a relative 2^-TolBits or more
GrowsWith(x1, q1, x2, q2) ==
    /\ FLeq(q1, q2)
    /\ DyApart(x1, x2) => FLess(q1, q2)

\* C7 as stated: for all 0 < H1 < H2, Q(b, H1, Cd) < Q(b, H2, Cd), and the Q
\* values of a curve are strictly increasing wherever its head values are.
C7_StrictlyIncreasing ==
    /\ IsQCall =>
          \A H2 \in QHArgs :
              FLess(call.H, H2) => FLess(ret, broad_crested_weir_Q(call.b, H2, call.Cd))
    /\ IsPlotCall =>
          \A i \in 1..(Len(fig.H_vals) - 1) :
              FLess(fig.H_vals[i], fig.H_vals[i + 1]) => FLess(fig.Q_vals[i], fig.Q_vals[i + 1])

\* C7 (amended): for fixed Cd, b > 0, Q never decreases as H grows: H1 < H2 gives
\* Q(b, H1, Cd) <= Q(b, H2, Cd), with Q(b, H1, Cd) < Q(b, H2, Cd) whenever H2
\* exceeds H1 by a relative 2^-50 or more (heads a few units in the last place
\* apart can give the same double); so the Q values of a curve are strictly
\* increasing wherever its head values increase by that much.
C7_Monotone ==
    /\ IsQCall =>
          \A H2 \in QHArgs :
              FLess(call.H, H2) =>
                  GrowsWith(call.H, ret, H2, broad_crested_weir_Q(call.b, H2, call.Cd))
    /\ IsPlotCall =>
          \A i \in 1..(Len(fig.H_vals) - 1) :
              FLess(fig.H_vals[i], fig.H_vals[i + 1]) =>
                  GrowsWith(fig.H_vals[i], fig.Q_vals[i], fig.H_vals[i + 1], fig.Q_vals[i + 1])

C7_Witness ==
    /\ IsQCall
    /\ call.H = FDec(3, 100)
    /\ ret = broad_crested_weir_Q(call.b, UlpsAbove(call.H, 1), call.Cd)
    /\ FLess(ret, broad_crested_weir_Q(call.b, FDec(55, 1000), call.Cd))

\* the factors k tried: powers of two, and others
PowerFactors == {FFromInt(2), FFromInt(4), FDec(1, 2)}
OtherFactors == {FFromInt(3), FDec(3, 2), FDec(1, 10)}

ScalesExactly(b, H, Cd, q, k) ==
    /\ broad_crested_weir_Q(b, H, FMul(k, Cd)) = FMul(k, q)
    /\ broad_crested_weir_Q(FMul(k, b), H, Cd) = FMul(k, q)
ScalesNearly(b, H, Cd, q, k) ==
    /\ DyNear(broad_crested_weir_Q(b, H, FMul(k, Cd)), DyMul(k, q))
    /\ DyNear(broad_crested_weir_Q(FMul(k, b), H, Cd), DyMul(k, q))

\* C8 as stated: for every factor k > 0, Q(b, H, k*Cd) = k * Q(b, H, Cd) and
\* Q(k*b, H, Cd) = k * Q(b, H, Cd), and increasing Cd increases Q.
C8_ExactlyLinear ==
    IsQCall =>
        /\ \A k \in PowerFactors \cup OtherFactors :
              ScalesExactly(call.b, call.H, call.Cd, ret, k)
        /\ \A Cd2 \in QCdArgs \cup {UlpsAbove(call.Cd, 1)} :
              FLess(call.Cd, Cd2) => FLess(ret, broad_crested_weir_Q(call.b, call.H, Cd2))

\* C8 (amended): Q(b, H, k*Cd) and Q(k*b, H, Cd) equal k * Q(b, H, Cd) exactly
\* when k is a power of two, so doubling Cd or b doubles Q, and for any other
\* k > 0 to within the rounding of double arithmetic (a relative 2^-50);
\* increasing Cd never decreases Q, and increases it when Cd grows by a relative
\* 2^-50 or more.
C8_Linear ==
    IsQCall =>
        /\ \A k \in PowerFactors : ScalesExactly(call.b, call.H, call.Cd, ret, k)
        /\ \A k \in PowerFactors \cup OtherFactors :
              ScalesNearly(call.b, call.H, call.Cd, ret, k)
        /\ \A Cd2 \in QCdArgs \cup {UlpsAbove(call.Cd, 1)} :
              FLess(call.Cd, Cd2) =>
                  GrowsWith(call.Cd, ret, Cd2, broad_crested_weir_Q(call.b, call.H, Cd2))

C8_Witness ==
    /\ IsQCall
    /\ broad_crested_weir_Q(call.b, call.H, FMul(FFromInt(3), call.Cd)) # FMul(FFromInt(3), ret)
    /\ broad_crested_weir_Q(call.b, call.H, FMul(FFromInt(2), call.Cd)) = FMul(FFromInt(2), ret)
    /\ broad_crested_weir_Q(FMul(FFromInt(2), call.b), call.H, call.Cd) = FMul(FFromInt(2), ret)

\* C9: the value returned agrees, within the rounding of double arithmetic (a
\* relative 2^-50), with the exponent-law form Cd * b * sqrt(2 * 9.81) * H^1.5,
\* and quadrupling H multiplies the returned Q by exactly 8.
C9_ExponentLaw ==
    IsQCall =>
        /\ NearRoot(ret, ExponentSquare(call.b, call.H, call.Cd))
        /\ broad_crested_weir_Q(call.b, FMul(FFromInt(4), call.H), call.Cd) = FMul(FFromInt(8), ret)

C9_Witness ==
    /\ IsQCall
    /\ call.H = FDec(55, 1000)
    /\ Positive(ret)
    /\ broad_crested_weir_Q(call.b, FMul(FFromInt(4), call.H), call.Cd) = FMul(FFromInt(8), ret)
====
